---- MODULE Spec2Model ----
(***************************************************************************)
(* Role-based access control over users and roles (NestJS + Prisma).      *)
(* The relational store is modelled as sets of rows, one variable per     *)
(* Prisma model; every service method is one action that runs the whole   *)
(* handler against the store.                                             *)
(***************************************************************************)
EXTENDS Integers, Sequences, FiniteSets, TLC

VARIABLES
    role,            \* table Role: rows [id, name, hierarchy]
    rolePermission,  \* table RolePermission: rows [roleId, permissionId]
    user,            \* table User: rows [id, email]
    userRole,        \* table UserRole: rows [userId, roleId]
    roleSeq,         \* next value of Role.id (autoincrement)
    userSeq,         \* next value of User.id (autoincrement)
    last,            \* the last service call and its outcome
    req              \* role requests in flight, one per connection

vars == <<role, rolePermission, user, userRole, roleSeq, userSeq, last, req>>

store == <<role, rolePermission, user, userRole, roleSeq, userSeq>>

(***************************************************************************)
(* Bounds of the model.                                                    *)
(***************************************************************************)
MaxRoleId == 3      \* Role.id values handed out: 1..MaxRoleId
MaxUserId == 3      \* User.id values handed out: 1..MaxUserId
MaxHierarchy == 4   \* largest hierarchy requested or stored

MaxRoles == 2       \* longest role list of a caller handed to the service alone
MaxSeconds == 5     \* the clock runs from second 0 to this second
RefreshSeconds == 2 \* JWT_REFRESH_EXPIRES_IN, in seconds

(***************************************************************************)
(* Permission catalog (prisma/seed.ts): ids 1..8 in seeding order.         *)
(***************************************************************************)
PermissionCount == 8

Permission == 1..PermissionCount

\* Permission.name by id
PermissionName ==
    <<"create_user", "read_user", "update_user", "delete_user",
      "create_role", "read_role", "update_role", "delete_role">>

RoleNames == {"Super Admin", "Admin", "Manager"}

Emails == {"super@admin.com", "admin@admin.com", "user@mail.com"}

\* Lists of permission ids a request may carry: none, one held by both
\* seeded roles with one held only by Super Admin (8 = delete_role), and an
\* id no permission has.
PermissionIdInputs == {<<>>, <<5, 8>>, <<9>>}

Range(s) == {s[i] : i \in 1..Len(s)}

\* two connections, each carrying one role request at a time
Slots == {1, 2}

\* a connection with no request in flight
IdleRequest ==
    [pc |-> "idle", op |-> "none", actor |-> 0, authUser |-> 0, id |-> 0,
     dto |-> 0, existingRole |-> 0, existingPermissionIds |-> {},
     hierarchyExists |-> FALSE, rankChange |-> FALSE]

(***************************************************************************)
(* Seed state.                                                             *)
(***************************************************************************)
SeedRoles ==
    {[id |-> 1, name |-> "Super Admin", hierarchy |-> 1],
     [id |-> 2, name |-> "Admin", hierarchy |-> 2]}

SeedUsers ==
    {[id |-> 1, email |-> "super@admin.com"],
     [id |-> 2, email |-> "admin@admin.com"]}

SeedUserRoles ==
    {[userId |-> 1, roleId |-> 1], [userId |-> 2, roleId |-> 2]}

SeedRolePermissions ==
    {[roleId |-> 1, permissionId |-> p] : p \in Permission}
        \cup {[roleId |-> 2, permissionId |-> p] : p \in {1, 2, 3, 5, 6, 7}}

Init ==
    /\ role = SeedRoles
    /\ rolePermission = SeedRolePermissions
    /\ user = SeedUsers
    /\ userRole = SeedUserRoles
    /\ roleSeq = 3
    /\ userSeq = 3
    /\ last = [op |-> "none", status |-> "none", actor |-> 0, target |-> 0,
               arg |-> 0, hierarchyExists |-> FALSE]
    /\ req = [s \in Slots |-> IdleRequest]

\* what a finished call leaves to observe: the method, the exception thrown
\* (or "ok"), the acting user's id (0: none), the id the call was about (0:
\* none), its numeric argument (role calls: the rank asked for or removed;
\* user calls: the roleId carried) and whether that rank was already taken
Outcome(op, status, actor, target, arg, hierarchyExists) ==
    [op |-> op, status |-> status, actor |-> actor, target |-> target,
     arg |-> arg, hierarchyExists |-> hierarchyExists]

(***************************************************************************)
(* Store helpers.                                                          *)
(***************************************************************************)
NullRole == [id |-> 0, name |-> "null", hierarchy |-> 0]

IsNull(r) == r.id = 0

\* prisma.role.findUnique({ where: { id } })
FindRoleById(tbl, id) ==
    IF \E r \in tbl : r.id = id THEN CHOOSE r \in tbl : r.id = id ELSE NullRole

\* rows of Role held by a user, through UserRole (include: { role: true })
RolesOfUser(uid) ==
    {r \in role : \E ur \in userRole : ur.userId = uid /\ ur.roleId = r.id}

\* findMany without orderBy: rows come back in primary-key order
RECURSIVE RoleSeq(_)
RoleSeq(S) ==
    IF S = {} THEN <<>>
    ELSE LET r == CHOOSE x \in S : \A y \in S : x.id <= y.id
         IN <<r>> \o RoleSeq(S \ {r})

PermissionsOfRoles(rs) ==
    {rp.permissionId : rp \in {x \in rolePermission : \E r \in rs : r.id = x.roleId}}

(***************************************************************************)
(* Authorization context.                                                  *)
(***************************************************************************)
NullUser ==
    [loaded |-> FALSE, info |-> [id |-> 0, email |-> ""],
     roles |-> <<>>, permissions |-> {}]

\* JwtAuthGuard.canActivate: roles and permissions read from the store
LoadedUser(u) ==
    [loaded |-> TRUE, info |-> u,
     roles |-> RoleSeq(RolesOfUser(u.id)),
     permissions |-> PermissionsOfRoles(RolesOfUser(u.id))]

RECURSIVE Reduce(_, _)
Reduce(prev, rest) ==
    IF rest = <<>> THEN prev
    ELSE Reduce(IF prev.hierarchy > Head(rest).hierarchy THEN prev ELSE Head(rest),
                Tail(rest))

getBestHierarchyRoleFirst(roles) ==
    IF Len(roles) = 0 THEN NullRole ELSE Head(roles)

getBestHierarchyRole(roles) ==
    IF Len(roles) = 0 THEN NullRole ELSE Reduce(Head(roles), Tail(roles))

getAuthUserBestHierarchyRole(authUser) ==
    IF ~authUser.loaded THEN NullRole ELSE getBestHierarchyRole(authUser.roles)

isAuthUserBestRoleHigherOrEqualUnguarded(authUser, roleToCompare) ==
    LET userHighestRole == getAuthUserBestHierarchyRole(authUser)
    IN IF IsNull(roleToCompare) THEN FALSE
       ELSE userHighestRole.hierarchy <= roleToCompare.hierarchy

isAuthUserBestRoleLowerOrEqual(authUser, roleToCompare) ==
    LET userHighestRole == getAuthUserBestHierarchyRole(authUser)
    IN IF IsNull(roleToCompare) \/ IsNull(userHighestRole) THEN FALSE
       ELSE userHighestRole.hierarchy >= roleToCompare.hierarchy

\* true iff the user's best role exists, the compared role exists, and the
\* user's best hierarchy is numerically <= the compared role's hierarchy
isAuthUserBestRoleHigherOrEqual(authUser, roleToCompare) ==
    LET userHighestRole == getAuthUserBestHierarchyRole(authUser)
    IN IF IsNull(roleToCompare) \/ IsNull(userHighestRole) THEN FALSE
       ELSE userHighestRole.hierarchy <= roleToCompare.hierarchy

\* typeof role === 'number' ? role.findUnique({ where: { id: role } }) : role
ResolveRole(tbl, roleArg) ==
    IF roleArg.kind = "number" THEN FindRoleById(tbl, roleArg.id) ELSE roleArg.role

\* this.user.permissions.some((p) => p.name === permission), false without user
hasPermission(authUser, permission) ==
    IF ~authUser.loaded THEN FALSE
    ELSE \E p \in authUser.permissions : PermissionName[p] = permission

(***************************************************************************)
(* Policies and their dispatch.  A rule gets this.user?.info (undefined    *)
(* without a loaded user) and the params of the call ({} when the caller   *)
(* gave none); it returns a boolean or throws a TypeError on reading a     *)
(* property of undefined.                                                  *)
(***************************************************************************)
Policies == {"UserPolicy", "RolePolicy"}

PolicyActions == {"viewAny", "view", "create", "update", "delete"}

\* params: unknown = {}
NoParams == [given |-> FALSE, user |-> [id |-> 0, email |-> ""]]

Returned(value) == [threw |-> FALSE, value |-> value]

Threw == [threw |-> TRUE, value |-> FALSE]

\* user.id === params?.user.id || hasPermission(permission)
SelfOrPermissionOnly(authUser, params, permission) ==
    IF ~authUser.loaded \/ ~params.given THEN Threw
    ELSE Returned(hasPermission(authUser, permission))

SelfOr(authUser, params, permission) ==
    IF ~authUser.loaded \/ ~params.given THEN Threw
    ELSE Returned(authUser.info.id = params.user.id \/ hasPermission(authUser, permission))

UserPolicy(action, authUser, params) ==
    CASE action = "viewAny" -> Returned(hasPermission(authUser, "read_user"))
      [] action = "view" -> SelfOr(authUser, params, "read_user")
      [] action = "create" -> Returned(hasPermission(authUser, "create_user"))
      [] action = "update" -> SelfOr(authUser, params, "update_user")
      [] action = "delete" -> SelfOr(authUser, params, "delete_user")

RolePolicy(action, authUser, params) ==
    CASE action = "viewAny" -> Returned(hasPermission(authUser, "read_role"))
      [] action = "view" -> Returned(hasPermission(authUser, "read_role"))
      [] action = "create" -> Returned(hasPermission(authUser, "create_role"))
      [] action = "update" -> Returned(hasPermission(authUser, "update_role"))
      [] action = "delete" -> Returned(hasPermission(authUser, "delete_role"))

\* typeof instance[action] === 'function'
IsFunction(policy, action) == action \in PolicyActions

AuthorizeSwapped(authUser, policy, action, params) ==
    IF IsFunction(policy, action)
    THEN LET response == IF policy = "UserPolicy" THEN UserPolicy(action, authUser, params)
                         ELSE RolePolicy(action, authUser, params)
         IN IF response.threw THEN "TypeError"
            ELSE IF ~response.value THEN "InternalServerError"
            ELSE "ok"
    ELSE "Forbidden"

\* AuthorizationService.authorize: "ok" on a normal return, else what it throws
Authorize(authUser, policy, action, params) ==
    IF IsFunction(policy, action)
    THEN LET response == IF policy = "UserPolicy" THEN UserPolicy(action, authUser, params)
                         ELSE RolePolicy(action, authUser, params)
         IN IF response.threw THEN "TypeError"
            ELSE IF ~response.value THEN "Forbidden"
            ELSE "ok"
    ELSE "InternalServerError"

(***************************************************************************)
(* Request bodies.  An optional field that is absent is not in `defined`   *)
(* and carries a fixed placeholder.                                        *)
(***************************************************************************)
CreateRoleDtos ==
    [name : RoleNames, hierarchy : 1..MaxHierarchy,
     permissionIds : PermissionIdInputs]

UpdateRoleDtos ==
    {d \in [defined : SUBSET {"name", "hierarchy", "permissionIds"},
            name : RoleNames \cup {""}, hierarchy : 0..MaxHierarchy,
            permissionIds : PermissionIdInputs] :
        /\ ("name" \in d.defined) = (d.name # "")
        /\ ("hierarchy" \in d.defined) = (d.hierarchy # 0)
        /\ "permissionIds" \notin d.defined => d.permissionIds = <<>>}

CreateUserDtos ==
    {d \in [defined : SUBSET {"roleId"}, email : Emails, roleId : 0..MaxRoleId] :
        "roleId" \notin d.defined => d.roleId = 0}

UpdateUserDtos ==
    {d \in [defined : SUBSET {"email", "roleId"}, email : Emails \cup {""},
            roleId : 0..MaxRoleId] :
        /\ ("email" \in d.defined) = (d.email # "")
        /\ "roleId" \notin d.defined => d.roleId = 0}

\* JavaScript truthiness of an optional number
Truthy(d, field, value) == field \in d.defined /\ value # 0

(***************************************************************************)
(* Hierarchy mutation engine.                                              *)
(***************************************************************************)
\* roles.some((role) => role.hierarchy === hierarchy)
HierarchyExists(tbl, hierarchy) == \E r \in tbl : r.hierarchy = hierarchy

ShiftUpStrict(tbl, hierarchy) ==
    {IF r.hierarchy > hierarchy THEN [r EXCEPT !.hierarchy = @ + 1] ELSE r : r \in tbl}

\* updateMany({ where: { hierarchy: { gte } }, data: { hierarchy: { increment: 1 } } })
ShiftUp(tbl, hierarchy) ==
    {IF r.hierarchy >= hierarchy THEN [r EXCEPT !.hierarchy = @ + 1] ELSE r : r \in tbl}

\* updateMany({ where: { hierarchy: { gt } }, data: { hierarchy: { decrement: 1 } } })
ShiftDown(tbl, hierarchy) ==
    {IF r.hierarchy > hierarchy THEN [r EXCEPT !.hierarchy = @ - 1] ELSE r : r \in tbl}

\* permission.findMany({ where: { id: { in: ids } } }).length !== ids.length
InvalidPermissionIds(ids) ==
    Cardinality(Range(ids) \cap Permission) # Len(ids)

PermissionsNotHeldIgnored(authUser, ids) == {}

\* permissionIds.filter((id) => !userPermissions.includes(id))
PermissionsNotHeld(authUser, ids) == Range(ids) \ authUser.permissions

WithinBounds(tbl) == \A r \in tbl : r.hierarchy <= MaxHierarchy

(***************************************************************************)
(* RolesService.create                                                     *)
(***************************************************************************)
CreateHierarchyDeniedNever(hierarchy, userHighestRole) == FALSE

CreateHierarchyDeniedStrict(hierarchy, userHighestRole) ==
    hierarchy < userHighestRole.hierarchy

\* createRoleDto.hierarchy <= userHighestRole.hierarchy
CreateHierarchyDenied(hierarchy, userHighestRole) ==
    hierarchy <= userHighestRole.hierarchy

\* the checks of create, in order; "ok" when all pass
CreateRoleStatus(tbl, authUser, dto) ==
    LET userHighestRole == getAuthUserBestHierarchyRole(authUser)
    IN IF \E r \in tbl : r.name = dto.name THEN "Conflict_RoleName"
       ELSE IF InvalidPermissionIds(dto.permissionIds) THEN "BadRequest_PermissionIds"
       ELSE IF PermissionsNotHeld(authUser, dto.permissionIds) # {}
            THEN "Unauthorized_Permissions"
       ELSE IF IsNull(userHighestRole) THEN "BadRequest_NoRole"
       ELSE IF userHighestRole.hierarchy <= 0 THEN "InternalServerError_Hierarchy"
       ELSE IF CreateHierarchyDenied(dto.hierarchy, userHighestRole)
            THEN "Unauthorized_Hierarchy"
       ELSE "ok"

CreateRoleRowsNoShift(tbl, dto, hierarchyExists, id) ==
    tbl \cup {[id |-> id, name |-> dto.name, hierarchy |-> dto.hierarchy]}

\* the transaction of create: shift, insert the role, insert its permissions
CreateRoleRows(tbl, dto, hierarchyExists, id) ==
    (IF hierarchyExists THEN ShiftUp(tbl, dto.hierarchy) ELSE tbl)
        \cup {[id |-> id, name |-> dto.name, hierarchy |-> dto.hierarchy]}

CreateRolePermissionRows(rp, dto, id) ==
    rp \cup {[roleId |-> id, permissionId |-> p] : p \in Range(dto.permissionIds)}

RolesCreate(u, dto) ==
    LET authUser == LoadedUser(u)
        status == CreateRoleStatus(role, authUser, dto)
        hierarchyExists == HierarchyExists(role, dto.hierarchy)
    IN /\ UNCHANGED req
       /\ last' = Outcome("roles.create", status, u.id,
                           IF status = "ok" THEN roleSeq ELSE 0, dto.hierarchy,
                           status = "ok" /\ hierarchyExists)
       /\ IF status # "ok" THEN UNCHANGED store
          ELSE /\ roleSeq <= MaxRoleId
               /\ role' = CreateRoleRows(role, dto, hierarchyExists, roleSeq)
               /\ WithinBounds(role')
               /\ rolePermission' = CreateRolePermissionRows(rolePermission, dto, roleSeq)
               /\ roleSeq' = roleSeq + 1
               /\ UNCHANGED <<user, userRole, userSeq>>

(***************************************************************************)
(* RolesService.update                                                     *)
(***************************************************************************)
UpdateRoleStatusNameIgnored(tbl, authUser, id, dto) ==
    LET existingRole == FindRoleById(tbl, id)
        userHighestRole == getAuthUserBestHierarchyRole(authUser)
    IN IF IsNull(existingRole) THEN "NotFound"
       ELSE IF "permissionIds" \in dto.defined /\ InvalidPermissionIds(dto.permissionIds)
            THEN "BadRequest_PermissionIds"
       ELSE IF /\ "permissionIds" \in dto.defined
               /\ PermissionsNotHeld(authUser, dto.permissionIds) # {}
            THEN "Unauthorized_Permissions"
       ELSE IF IsNull(userHighestRole) THEN "BadRequest_NoRole"
       ELSE IF userHighestRole.hierarchy <= 0 THEN "InternalServerError_Hierarchy"
       ELSE IF /\ Truthy(dto, "hierarchy", dto.hierarchy)
               /\ dto.hierarchy <= userHighestRole.hierarchy
            THEN "Unauthorized_Hierarchy"
       ELSE "ok"

UpdateRoleStatus(tbl, authUser, id, dto) ==
    LET existingRole == FindRoleById(tbl, id)
        userHighestRole == getAuthUserBestHierarchyRole(authUser)
    IN IF IsNull(existingRole) THEN "NotFound"
       ELSE IF /\ "name" \in dto.defined
               /\ dto.name # existingRole.name
               /\ \E r \in tbl : r.name = dto.name
            THEN "Conflict_RoleName"
       ELSE IF "permissionIds" \in dto.defined /\ InvalidPermissionIds(dto.permissionIds)
            THEN "BadRequest_PermissionIds"
       ELSE IF /\ "permissionIds" \in dto.defined
               /\ PermissionsNotHeld(authUser, dto.permissionIds) # {}
            THEN "Unauthorized_Permissions"
       ELSE IF IsNull(userHighestRole) THEN "BadRequest_NoRole"
       ELSE IF userHighestRole.hierarchy <= 0 THEN "InternalServerError_Hierarchy"
       ELSE IF /\ Truthy(dto, "hierarchy", dto.hierarchy)
               /\ dto.hierarchy <= userHighestRole.hierarchy
            THEN "Unauthorized_Hierarchy"
       ELSE "ok"

\* updateRoleDto.hierarchy !== undefined && !== existingRole.hierarchy
HierarchyChanged(dto, existingRole) ==
    "hierarchy" \in dto.defined /\ dto.hierarchy # existingRole.hierarchy

UpdateShiftRowsNone(tbl, dto, existingRole) == tbl

\* first transaction of update: shift the roles at or below the new rank
UpdateShiftRows(tbl, dto, existingRole) ==
    IF HierarchyChanged(dto, existingRole) /\ HierarchyExists(tbl, dto.hierarchy)
    THEN ShiftUp(tbl, dto.hierarchy)
    ELSE tbl

\* second transaction of update: prisma.role.update({ where: { id }, data })
UpdateRoleRows(tbl, id, dto, existingRole) ==
    {IF r.id = id
     THEN [r EXCEPT
             !.name = IF "name" \in dto.defined THEN dto.name ELSE existingRole.name,
             !.hierarchy = IF "hierarchy" \in dto.defined THEN dto.hierarchy
                           ELSE existingRole.hierarchy]
     ELSE r : r \in tbl}

\* deleteMany notIn the new list, then createMany of the ids not held before
UpdateRolePermissionRows(rp, id, dto, existingPermissionIds) ==
    IF "permissionIds" \notin dto.defined THEN rp
    ELSE (rp \ {x \in rp : x.roleId = id /\ x.permissionId \notin Range(dto.permissionIds)})
            \cup {[roleId |-> id, permissionId |-> p] :
                    p \in Range(dto.permissionIds) \ existingPermissionIds}

PermissionIdsOfRole(rp, id) == {x.permissionId : x \in {y \in rp : y.roleId = id}}

RolesUpdate(u, id, dto) ==
    LET authUser == LoadedUser(u)
        status == UpdateRoleStatus(role, authUser, id, dto)
        existingRole == FindRoleById(role, id)
        shifted == UpdateShiftRows(role, dto, existingRole)
    IN /\ UNCHANGED req
       /\ last' = Outcome("roles.update", status, u.id, id, dto.hierarchy,
                           /\ status = "ok"
                           /\ HierarchyChanged(dto, existingRole)
                           /\ HierarchyExists(role, dto.hierarchy))
       /\ IF status # "ok" THEN UNCHANGED store
          ELSE /\ role' = UpdateRoleRows(shifted, id, dto, existingRole)
               /\ WithinBounds(role')
               /\ rolePermission' =
                    UpdateRolePermissionRows(rolePermission, id, dto,
                                             PermissionIdsOfRole(rolePermission, id))
               /\ UNCHANGED <<user, userRole, roleSeq, userSeq>>

(***************************************************************************)
(* RolesService.remove                                                     *)
(***************************************************************************)
RemoveRoleStatusInUseIgnored(tbl, ur, authUser, id) ==
    LET roleToDelete == FindRoleById(tbl, id)
        userHighestRole == getAuthUserBestHierarchyRole(authUser)
    IN IF IsNull(roleToDelete) THEN "NotFound"
       ELSE IF IsNull(userHighestRole) THEN "BadRequest_NoRole"
       ELSE IF userHighestRole.hierarchy <= 0 THEN "InternalServerError_Hierarchy"
       ELSE IF roleToDelete.hierarchy <= userHighestRole.hierarchy
            THEN "Unauthorized_Hierarchy"
       ELSE "ok"

\* the checks of remove, in order; "ok" when all pass
RemoveRoleStatus(tbl, ur, authUser, id) ==
    LET roleToDelete == FindRoleById(tbl, id)
        userHighestRole == getAuthUserBestHierarchyRole(authUser)
    IN IF IsNull(roleToDelete) THEN "NotFound"
       ELSE IF IsNull(userHighestRole) THEN "BadRequest_NoRole"
       ELSE IF userHighestRole.hierarchy <= 0 THEN "InternalServerError_Hierarchy"
       ELSE IF roleToDelete.hierarchy <= userHighestRole.hierarchy
            THEN "Unauthorized_Hierarchy"
       ELSE IF \E x \in ur : x.roleId = id THEN "Conflict_RoleInUse"
       ELSE "ok"

RemoveRoleRowsNoShift(tbl, id, roleToDelete) == {r \in tbl : r.id # id}

\* role.delete({ where: { id } }) then the decrement of the ranks above it
RemoveRoleRows(tbl, id, roleToDelete) ==
    ShiftDown({r \in tbl : r.id # id}, roleToDelete.hierarchy)

RolesRemove(u, id) ==
    LET authUser == LoadedUser(u)
        status == RemoveRoleStatus(role, userRole, authUser, id)
        roleToDelete == FindRoleById(role, id)
    IN /\ UNCHANGED req
       /\ last' = Outcome("roles.remove", status, u.id, id,
                           roleToDelete.hierarchy, FALSE)
       /\ IF status # "ok" THEN UNCHANGED store
          ELSE /\ role' = RemoveRoleRows(role, id, roleToDelete)
               \* onDelete: Cascade on both association tables
               /\ rolePermission' = {x \in rolePermission : x.roleId # id}
               /\ userRole' = {x \in userRole : x.roleId # id}
               /\ UNCHANGED <<user, roleSeq, userSeq>>

(***************************************************************************)
(* UsersService                                                            *)
(***************************************************************************)
IsSelfUpdateNever(id, authUser) == FALSE

\* const isSelfUpdate = id === reqUser.id
IsSelfUpdate(id, authUser) == id = authUser.info.id

IsSelfRemoveNever(id, authUser) == FALSE

\* if (id === reqUser.id) return this.deleteUser(id)
IsSelfRemove(id, authUser) == id = authUser.info.id

FindUserById(tbl, id) ==
    IF \E x \in tbl : x.id = id THEN CHOOSE x \in tbl : x.id = id
    ELSE [id |-> 0, email |-> ""]

\* the checks of create, in order; reqUserRoles is the caller's role list
CreateUserStatus(authUser, dto, reqUserRoles) ==
    IF \E x \in user : x.email = dto.email THEN "Conflict_Email"
    ELSE IF Truthy(dto, "roleId", dto.roleId) /\ Len(reqUserRoles) = 0
         THEN "Forbidden_NoRole"
    ELSE IF /\ Truthy(dto, "roleId", dto.roleId)
            /\ ~isAuthUserBestRoleHigherOrEqual(authUser, FindRoleById(role, dto.roleId))
         THEN "Forbidden_Hierarchy"
    ELSE "ok"

\* user.create, then userRole.create outside any transaction; the second
\* write fails on the foreign key when the role row is gone
UsersCreate(authUser, dto) ==
    LET reqUserRoles == authUser.roles
        status == CreateUserStatus(authUser, dto, reqUserRoles)
        assign == Truthy(dto, "roleId", dto.roleId)
        roleThere == \E r \in role : r.id = dto.roleId
    IN /\ UNCHANGED req
       /\ IF status # "ok"
          THEN /\ last' = Outcome("users.create", status, authUser.info.id, 0,
                                   dto.roleId, FALSE)
               /\ UNCHANGED store
          ELSE /\ userSeq <= MaxUserId
               /\ user' = user \cup {[id |-> userSeq, email |-> dto.email]}
               /\ userSeq' = userSeq + 1
               /\ userRole' = IF assign /\ roleThere
                              THEN userRole \cup {[userId |-> userSeq, roleId |-> dto.roleId]}
                              ELSE userRole
               /\ last' = Outcome("users.create",
                                  IF assign /\ ~roleThere
                                  THEN "InternalServerError" ELSE "ok",
                                  authUser.info.id, userSeq, dto.roleId, FALSE)
               /\ UNCHANGED <<role, rolePermission, roleSeq>>

\* the role the acting user is compared with on a role change: the target's
\* best current role, or the role to be assigned when the target has none
UpdateTargetRole(targetRoles, roleId) ==
    IF Len(targetRoles) # 0 THEN getBestHierarchyRole(targetRoles)
    ELSE FindRoleById(role, roleId)

UpdateUserStatus(authUser, id, dto, reqUserRoles) ==
    LET target == FindUserById(user, id)
        targetRoles == RoleSeq(RolesOfUser(id))
    IN IF target.id = 0 THEN "NotFound"
       ELSE IF Truthy(dto, "roleId", dto.roleId) /\ IsSelfUpdate(id, authUser)
            THEN "Conflict_OwnRole"
       ELSE IF Truthy(dto, "roleId", dto.roleId) /\ Len(reqUserRoles) = 0
            THEN "Forbidden_NoRole"
       ELSE IF /\ Truthy(dto, "roleId", dto.roleId)
               /\ ~isAuthUserBestRoleHigherOrEqual(
                      authUser, UpdateTargetRole(targetRoles, dto.roleId))
            THEN "Forbidden_Hierarchy"
       ELSE IF /\ "email" \in dto.defined
               /\ \E x \in user : x.email = dto.email /\ x.id # id
            THEN "Conflict_Email"
       \* user.update({ data: { ...updateUserDto } }): User has no roleId
       \* column, the client rejects the unknown field and the call
       \* ends in the catch block
       ELSE IF "roleId" \in dto.defined THEN "InternalServerError"
       ELSE "ok"

UpdateUserRows(tbl, id, dto) ==
    {IF x.id = id /\ "email" \in dto.defined THEN [x EXCEPT !.email = dto.email]
     ELSE x : x \in tbl}

UsersUpdate(u, id, dto) ==
    LET authUser == LoadedUser(u)
        status == UpdateUserStatus(authUser, id, dto, authUser.roles)
    IN /\ UNCHANGED req
       /\ last' = Outcome("users.update", status, u.id, id, dto.roleId, FALSE)
       /\ IF status # "ok" THEN UNCHANGED store
          ELSE /\ user' = UpdateUserRows(user, id, dto)
               /\ UNCHANGED <<role, rolePermission, userRole, roleSeq, userSeq>>

RemoveUserStatusRankedOnly(authUser, id, reqUserRoles) ==
    LET userToDelete == FindUserById(user, id)
        userToDeleteRoles == RoleSeq(RolesOfUser(id))
    IN IF IsSelfRemove(id, authUser) THEN "ok"
       ELSE IF userToDelete.id = 0 THEN "NotFound"
       ELSE IF Len(reqUserRoles) = 0 THEN "Forbidden_NoRole"
       ELSE IF ~isAuthUserBestRoleHigherOrEqual(
                   authUser, getBestHierarchyRole(userToDeleteRoles))
            THEN "Forbidden_Hierarchy"
       ELSE "ok"

RemoveUserStatus(authUser, id, reqUserRoles) ==
    LET userToDelete == FindUserById(user, id)
        userToDeleteRoles == RoleSeq(RolesOfUser(id))
    IN IF IsSelfRemove(id, authUser) THEN "ok"
       ELSE IF userToDelete.id = 0 THEN "NotFound"
       ELSE IF Len(reqUserRoles) = 0 THEN "Forbidden_NoRole"
       ELSE IF Len(reqUserRoles) > 0 /\ Len(userToDeleteRoles) = 0 THEN "ok"
       ELSE IF ~isAuthUserBestRoleHigherOrEqual(
                   authUser, getBestHierarchyRole(userToDeleteRoles))
            THEN "Forbidden_Hierarchy"
       ELSE "ok"

\* user.delete({ where: { id } }); UserRole rows go with it (onDelete: Cascade)
UsersRemove(u, id) ==
    LET authUser == LoadedUser(u)
        status == RemoveUserStatus(authUser, id, authUser.roles)
    IN /\ UNCHANGED req
       /\ last' = Outcome("users.remove", status, u.id, id, 0, FALSE)
       /\ IF status # "ok" THEN UNCHANGED store
          ELSE /\ user' = {x \in user : x.id # id}
               /\ userRole' = {x \in userRole : x.userId # id}
               /\ UNCHANGED <<role, rolePermission, roleSeq, userSeq>>

(***************************************************************************)
(* One request at a time: each service call runs to completion.           *)
(***************************************************************************)
RoleIds == 1..MaxRoleId

UserIds == 1..MaxUserId

\* the contexts a call can run under: a stored user behind the guard, or
\* none (AuthenticationService.register)
AuthUsers == {NullUser} \cup {LoadedUser(u) : u \in user}

Next ==
    \/ \E u \in user, dto \in CreateRoleDtos : RolesCreate(u, dto)
    \/ \E u \in user, id \in RoleIds, dto \in UpdateRoleDtos : RolesUpdate(u, id, dto)
    \/ \E u \in user, id \in RoleIds : RolesRemove(u, id)
    \/ \E authUser \in AuthUsers, dto \in CreateUserDtos : UsersCreate(authUser, dto)
    \/ \E u \in user, id \in UserIds, dto \in UpdateUserDtos : UsersUpdate(u, id, dto)
    \/ \E u \in user, id \in UserIds : UsersRemove(u, id)

Spec == Init /\ [][Next]_vars

(***************************************************************************)
(* Slices of Spec: the same handlers over part of the request bodies, so   *)
(* that each part of the store is explored in full.                        *)
(***************************************************************************)
\* role requests that exercise the ranks: no permission ids, no rename
RankCreateRoleDtos == {d \in CreateRoleDtos : d.permissionIds = <<>>}

RankUpdateRoleDtos == {d \in UpdateRoleDtos : d.defined \subseteq {"hierarchy"}}

\* RegisterUserDto: no roleId; the call runs without a loaded user
RegisterUserDtos == {d \in CreateUserDtos : "roleId" \notin d.defined}

NextRank ==
    \/ \E u \in user, dto \in RankCreateRoleDtos : RolesCreate(u, dto)
    \/ \E u \in user, id \in RoleIds, dto \in RankUpdateRoleDtos : RolesUpdate(u, id, dto)
    \/ \E u \in user, id \in RoleIds : RolesRemove(u, id)
    \/ \E dto \in RegisterUserDtos : UsersCreate(NullUser, dto)

SpecRank == Init /\ [][NextRank]_vars

\* role requests that exercise the permission sets: no rename, no move,
\* new roles appended below the seeded ones
PermCreateRoleDtos == {d \in CreateRoleDtos : d.hierarchy = 3}

PermUpdateRoleDtos == {d \in UpdateRoleDtos : d.defined \subseteq {"permissionIds"}}

NextPerm ==
    \/ \E u \in user, dto \in PermCreateRoleDtos : RolesCreate(u, dto)
    \/ \E u \in user, id \in RoleIds, dto \in PermUpdateRoleDtos : RolesUpdate(u, id, dto)
    \/ \E u \in user, id \in RoleIds : RolesRemove(u, id)

SpecPerm == Init /\ [][NextPerm]_vars

\* role updates that rename and move the seeded roles, by every stored user
\* and by a registered user, who holds no role
RenameUpdateRoleDtos ==
    {d \in UpdateRoleDtos : "permissionIds" \notin d.defined /\ d.name # "Super Admin"}

NextRoleUpdate ==
    \/ \E u \in user, id \in RoleIds, dto \in RenameUpdateRoleDtos : RolesUpdate(u, id, dto)
    \/ \E dto \in RegisterUserDtos : UsersCreate(NullUser, dto)

SpecRoleUpdate == Init /\ [][NextRoleUpdate]_vars

\* user requests, over the seeded roles: roleId absent, 0, a seeded role's
\* id or an id no role has; an update leaves the email or sets the one email
\* no seeded user has
SeededCreateUserDtos == {d \in CreateUserDtos : d.roleId <= 3}

SeededUpdateUserDtos ==
    {d \in UpdateUserDtos : d.roleId <= 3 /\ d.email \in {"", "user@mail.com"}}

NextUsers ==
    \/ \E authUser \in AuthUsers, dto \in SeededCreateUserDtos : UsersCreate(authUser, dto)
    \/ \E u \in user, id \in UserIds, dto \in SeededUpdateUserDtos : UsersUpdate(u, id, dto)
    \/ \E u \in user, id \in UserIds : UsersRemove(u, id)

SpecUsers == Init /\ [][NextUsers]_vars

(***************************************************************************)
(* Store failures.  Each handler takes, besides its request, the write     *)
(* that fails ("none": every write goes through).  A failing statement     *)
(* throws; a transaction that throws is rolled back, and what an earlier   *)
(* transaction or statement committed stays.  A fault named for a write    *)
(* the call does not reach leaves the call as it is without faults.        *)
(***************************************************************************)
\* the call ends in the error of a failed write
Failed(op, actor, target, arg) ==
    /\ last' = Outcome(op, "InternalServerError", actor, target, arg, FALSE)
    /\ UNCHANGED req

\* create: one transaction holds the shift, role.create and createMany
RolesCreateFaulty(u, dto, fault) ==
    IF fault = "transaction" /\ CreateRoleStatus(role, LoadedUser(u), dto) = "ok"
    THEN Failed("roles.create", u.id, 0, dto.hierarchy) /\ UNCHANGED store
    ELSE RolesCreate(u, dto)

\* update: the shift is a transaction of its own, committed before the
\* transaction that writes the role and its permissions begins
RolesUpdateFaulty(u, id, dto, fault) ==
    LET existingRole == FindRoleById(role, id)
        reached == UpdateRoleStatus(role, LoadedUser(u), id, dto) = "ok"
    IN IF fault = "shift" /\ reached /\ HierarchyChanged(dto, existingRole)
       THEN Failed("roles.update", u.id, id, dto.hierarchy) /\ UNCHANGED store
       ELSE IF fault = "update" /\ reached
       THEN /\ Failed("roles.update", u.id, id, dto.hierarchy)
            /\ role' = UpdateShiftRows(role, dto, existingRole)
            /\ WithinBounds(role')
            /\ UNCHANGED <<rolePermission, user, userRole, roleSeq, userSeq>>
       ELSE RolesUpdate(u, id, dto)

\* remove: one transaction holds role.delete and the shift
RolesRemoveFaulty(u, id, fault) ==
    IF fault = "transaction" /\ RemoveRoleStatus(role, userRole, LoadedUser(u), id) = "ok"
    THEN /\ Failed("roles.remove", u.id, id, FindRoleById(role, id).hierarchy)
         /\ UNCHANGED store
    ELSE RolesRemove(u, id)

\* create: user.create and userRole.create are two statements, no transaction
UsersCreateFaulty(authUser, dto, fault) ==
    LET reached == CreateUserStatus(authUser, dto, authUser.roles) = "ok"
    IN IF fault = "user.create" /\ reached
       THEN Failed("users.create", authUser.info.id, 0, dto.roleId) /\ UNCHANGED store
       ELSE IF fault = "userRole.create" /\ reached /\ Truthy(dto, "roleId", dto.roleId)
       THEN /\ Failed("users.create", authUser.info.id, userSeq, dto.roleId)
            /\ userSeq <= MaxUserId
            /\ user' = user \cup {[id |-> userSeq, email |-> dto.email]}
            /\ userSeq' = userSeq + 1
            /\ UNCHANGED <<role, rolePermission, userRole, roleSeq>>
       ELSE UsersCreate(authUser, dto)

\* update: one statement, user.update
UsersUpdateFaulty(u, id, dto, fault) ==
    LET authUser == LoadedUser(u)
    IN IF fault = "user.update" /\ UpdateUserStatus(authUser, id, dto, authUser.roles) = "ok"
       THEN Failed("users.update", u.id, id, dto.roleId) /\ UNCHANGED store
       ELSE UsersUpdate(u, id, dto)

\* remove: one statement, user.delete
UsersRemoveFaulty(u, id, fault) ==
    LET authUser == LoadedUser(u)
    IN IF fault = "user.delete" /\ RemoveUserStatus(authUser, id, authUser.roles) = "ok"
       THEN Failed("users.remove", u.id, id, 0) /\ UNCHANGED store
       ELSE UsersRemove(u, id)

\* requests of the fault slice: Manager appended at rank 3, moves to rank 2,
\* users created without a role or with the Admin role, users given the one
\* email no seeded user has
FaultCreateRoleDtos ==
    {d \in RankCreateRoleDtos : d.name = "Manager" /\ d.hierarchy = 3}

FaultUpdateRoleDtos == {d \in RankUpdateRoleDtos : d.hierarchy = 2}

FaultCreateUserDtos ==
    {d \in SeededCreateUserDtos : d.email = "user@mail.com" /\ d.roleId \in {0, 2}}

FaultUpdateUserDtos == {d \in SeededUpdateUserDtos : "roleId" \notin d.defined}

NextFault ==
    \/ \E u \in user, dto \in FaultCreateRoleDtos, fault \in {"none", "transaction"} :
          RolesCreateFaulty(u, dto, fault)
    \/ \E u \in user, id \in RoleIds, dto \in FaultUpdateRoleDtos,
          fault \in {"none", "shift", "update"} : RolesUpdateFaulty(u, id, dto, fault)
    \/ \E u \in user, id \in RoleIds, fault \in {"none", "transaction"} :
          RolesRemoveFaulty(u, id, fault)
    \/ \E authUser \in AuthUsers, dto \in FaultCreateUserDtos,
          fault \in {"none", "user.create", "userRole.create"} :
          UsersCreateFaulty(authUser, dto, fault)
    \/ \E u \in user, id \in UserIds, dto \in FaultUpdateUserDtos,
          fault \in {"none", "user.update"} : UsersUpdateFaulty(u, id, dto, fault)
    \/ \E u \in user, id \in UserIds, fault \in {"none", "user.delete"} :
          UsersRemoveFaulty(u, id, fault)

SpecFault == Init /\ [][NextFault]_vars

(***************************************************************************)
(* Two role requests in flight.  Each await on the store is one step: the  *)
(* guard's load of the caller, the handler's reads, each transaction.      *)
(* Request bodies are those of the rank slice, for which update performs   *)
(* no read by name and no rewrite of permissions.                          *)
(***************************************************************************)
Request(pc, op, authUser, id, dto) ==
    [pc |-> pc, op |-> op, actor |-> authUser.info.id, authUser |-> authUser,
     id |-> id, dto |-> dto, existingRole |-> NullRole,
     existingPermissionIds |-> {}, hierarchyExists |-> FALSE,
     rankChange |-> FALSE]

\* what stays of a request once answered: the method, the caller and whether
\* it went through as a change of the ranks (a create, a move, a remove)
DoneRequest(r, status) ==
    [IdleRequest EXCEPT !.pc = "done", !.op = r.op, !.actor = r.actor,
                        !.rankChange = (status = "ok" /\ r.rankChange)]

\* the response leaves: the connection is through, the outcome is on record
Finish(s, status, target, arg, hierarchyExists) ==
    /\ req' = [req EXCEPT ![s] = DoneRequest(req[s], status)]
    /\ last' = Outcome(req[s].op, status, req[s].actor, target, arg,
                       hierarchyExists)

\* JwtAuthGuard.canActivate, then the controller hands over to the service
CallCreate(s, u, dto) ==
    /\ req[s].pc = "idle"
    /\ req' = [req EXCEPT ![s] =
                 Request("create.check", "roles.create", LoadedUser(u), 0, dto)]
    /\ UNCHANGED <<store, last>>

CallUpdate(s, u, id, dto) ==
    /\ req[s].pc = "idle"
    /\ req' = [req EXCEPT ![s] =
                 Request("update.find", "roles.update", LoadedUser(u), id, dto)]
    /\ UNCHANGED <<store, last>>

CallRemove(s, u, id) ==
    /\ req[s].pc = "idle"
    /\ req' = [req EXCEPT ![s] =
                 Request("remove.find", "roles.remove", LoadedUser(u), id, 0)]
    /\ UNCHANGED <<store, last>>

\* create: role.findUnique by name and the checks on the loaded caller
CreateCheck(s) ==
    LET r == req[s]
        status == CreateRoleStatus(role, r.authUser, r.dto)
    IN /\ r.pc = "create.check"
       /\ UNCHANGED store
       /\ IF status # "ok" THEN Finish(s, status, 0, r.dto.hierarchy, FALSE)
          ELSE /\ req' = [req EXCEPT ![s].pc = "create.read",
                                     ![s].rankChange = TRUE]
               /\ UNCHANGED last

\* create: role.findMany and roles.some(...)
CreateRead(s) ==
    LET r == req[s]
    IN /\ r.pc = "create.read"
       /\ req' = [req EXCEPT ![s].pc = "create.tx",
                             ![s].hierarchyExists = HierarchyExists(role, r.dto.hierarchy)]
       /\ UNCHANGED <<store, last>>

\* create: the transaction; role.create fails on the unique name when another
\* request has taken it, and the shift is rolled back with it (the id drawn
\* from the sequence is not given back)
CreateTx(s) ==
    LET r == req[s]
        nameTaken == \E x \in role : x.name = r.dto.name
    IN /\ r.pc = "create.tx"
       /\ roleSeq <= MaxRoleId
       /\ roleSeq' = roleSeq + 1
       /\ UNCHANGED <<user, userRole, userSeq>>
       /\ IF nameTaken
          THEN /\ UNCHANGED <<role, rolePermission>>
               /\ Finish(s, "InternalServerError", 0, r.dto.hierarchy, FALSE)
          ELSE /\ role' = CreateRoleRows(role, r.dto, r.hierarchyExists, roleSeq)
               /\ WithinBounds(role')
               /\ rolePermission' = CreateRolePermissionRows(rolePermission, r.dto, roleSeq)
               /\ Finish(s, "ok", roleSeq, r.dto.hierarchy, r.hierarchyExists)

\* update: role.findUnique with its permissions and the checks on the caller
UpdateFind(s) ==
    LET r == req[s]
        status == UpdateRoleStatus(role, r.authUser, r.id, r.dto)
        existingRole == FindRoleById(role, r.id)
    IN /\ r.pc = "update.find"
       /\ UNCHANGED store
       /\ IF status # "ok" THEN Finish(s, status, r.id, r.dto.hierarchy, FALSE)
          ELSE /\ req' = [req EXCEPT
                            ![s].pc = IF HierarchyChanged(r.dto, existingRole)
                                      THEN "update.read" ELSE "update.write",
                            ![s].rankChange = HierarchyChanged(r.dto, existingRole),
                            ![s].existingRole = existingRole,
                            ![s].existingPermissionIds =
                                PermissionIdsOfRole(rolePermission, r.id)]
               /\ UNCHANGED last

\* update: role.findMany and roles.some(...)
UpdateRead(s) ==
    LET r == req[s]
    IN /\ r.pc = "update.read"
       /\ req' = [req EXCEPT ![s].pc = "update.shift",
                             ![s].hierarchyExists = HierarchyExists(role, r.dto.hierarchy)]
       /\ UNCHANGED <<store, last>>

\* update: the first transaction, which only shifts
UpdateShift(s) ==
    LET r == req[s]
    IN /\ r.pc = "update.shift"
       /\ role' = IF r.hierarchyExists THEN ShiftUp(role, r.dto.hierarchy) ELSE role
       /\ WithinBounds(role')
       /\ req' = [req EXCEPT ![s].pc = "update.write"]
       /\ UNCHANGED <<rolePermission, user, userRole, roleSeq, userSeq, last>>

\* update: the second transaction; role.update fails when the row is gone
UpdateWrite(s) ==
    LET r == req[s]
        gone == IsNull(FindRoleById(role, r.id))
    IN /\ r.pc = "update.write"
       /\ UNCHANGED <<user, userRole, roleSeq, userSeq>>
       /\ IF gone
          THEN /\ UNCHANGED <<role, rolePermission>>
               /\ Finish(s, "InternalServerError", r.id, r.dto.hierarchy, FALSE)
          ELSE /\ role' = UpdateRoleRows(role, r.id, r.dto, r.existingRole)
               /\ rolePermission' =
                    UpdateRolePermissionRows(rolePermission, r.id, r.dto,
                                             r.existingPermissionIds)
               /\ Finish(s, "ok", r.id, r.dto.hierarchy, r.hierarchyExists)

\* remove: role.findUnique with its userRoles and the checks on the caller
RemoveFind(s) ==
    LET r == req[s]
        status == RemoveRoleStatus(role, userRole, r.authUser, r.id)
        roleToDelete == FindRoleById(role, r.id)
    IN /\ r.pc = "remove.find"
       /\ UNCHANGED store
       /\ IF status # "ok" THEN Finish(s, status, r.id, roleToDelete.hierarchy, FALSE)
          ELSE /\ req' = [req EXCEPT ![s].pc = "remove.tx",
                                     ![s].rankChange = TRUE,
                                     ![s].existingRole = roleToDelete]
               /\ UNCHANGED last

\* remove: the transaction; role.delete fails when the row is gone
RemoveTx(s) ==
    LET r == req[s]
        gone == IsNull(FindRoleById(role, r.id))
    IN /\ r.pc = "remove.tx"
       /\ UNCHANGED <<user, roleSeq, userSeq>>
       /\ IF gone
          THEN /\ UNCHANGED <<role, rolePermission, userRole>>
               /\ Finish(s, "InternalServerError", r.id, r.existingRole.hierarchy, FALSE)
          ELSE /\ role' = RemoveRoleRows(role, r.id, r.existingRole)
               /\ rolePermission' = {x \in rolePermission : x.roleId # r.id}
               /\ userRole' = {x \in userRole : x.roleId # r.id}
               /\ Finish(s, "ok", r.id, r.existingRole.hierarchy, FALSE)

NextConc ==
    \/ \E s \in Slots, u \in user, dto \in RankCreateRoleDtos : CallCreate(s, u, dto)
    \/ \E s \in Slots, u \in user, id \in RoleIds, dto \in RankUpdateRoleDtos :
          CallUpdate(s, u, id, dto)
    \/ \E s \in Slots, u \in user, id \in RoleIds : CallRemove(s, u, id)
    \/ \E s \in Slots : CreateCheck(s)
    \/ \E s \in Slots : CreateRead(s)
    \/ \E s \in Slots : CreateTx(s)
    \/ \E s \in Slots : UpdateFind(s)
    \/ \E s \in Slots : UpdateRead(s)
    \/ \E s \in Slots : UpdateShift(s)
    \/ \E s \in Slots : UpdateWrite(s)
    \/ \E s \in Slots : RemoveFind(s)
    \/ \E s \in Slots : RemoveTx(s)

SpecConc == Init /\ [][NextConc]_vars

(***************************************************************************)
(* A role removal in flight together with a user creation.  The steps of   *)
(* UsersService.create: its reads (user by email, role by id), then        *)
(* user.create, then userRole.create, each statement committed on its own. *)
(***************************************************************************)
CallUsersCreate(s, u, dto) ==
    /\ req[s].pc = "idle"
    /\ req' = [req EXCEPT ![s] =
                 Request("users.create.check", "users.create", LoadedUser(u), 0, dto)]
    /\ UNCHANGED <<store, last>>

\* create: user.findUnique by email, role.findUnique and the checks
UsersCreateCheck(s) ==
    LET r == req[s]
        status == CreateUserStatus(r.authUser, r.dto, r.authUser.roles)
    IN /\ r.pc = "users.create.check"
       /\ UNCHANGED store
       /\ IF status # "ok" THEN Finish(s, status, 0, r.dto.roleId, FALSE)
          ELSE /\ req' = [req EXCEPT ![s].pc = "users.create.user"]
               /\ UNCHANGED last

\* create: user.create; fails on the unique email when the email is taken
UsersCreateUser(s) ==
    LET r == req[s]
        taken == \E x \in user : x.email = r.dto.email
    IN /\ r.pc = "users.create.user"
       /\ UNCHANGED <<role, rolePermission, userRole, roleSeq>>
       /\ IF taken
          THEN /\ UNCHANGED <<user, userSeq>>
               /\ Finish(s, "InternalServerError", 0, r.dto.roleId, FALSE)
          ELSE /\ userSeq <= MaxUserId
               /\ user' = user \cup {[id |-> userSeq, email |-> r.dto.email]}
               /\ userSeq' = userSeq + 1
               /\ IF Truthy(r.dto, "roleId", r.dto.roleId)
                  THEN /\ req' = [req EXCEPT ![s].pc = "users.create.role",
                                             ![s].id = userSeq]
                       /\ UNCHANGED last
                  ELSE Finish(s, "ok", userSeq, r.dto.roleId, FALSE)

\* create: userRole.create; fails on the foreign key when the role is gone
UsersCreateUserRole(s) ==
    LET r == req[s]
        gone == IsNull(FindRoleById(role, r.dto.roleId))
    IN /\ r.pc = "users.create.role"
       /\ UNCHANGED <<role, rolePermission, user, roleSeq, userSeq>>
       /\ IF gone
          THEN /\ UNCHANGED userRole
               /\ Finish(s, "InternalServerError", r.id, r.dto.roleId, FALSE)
          ELSE /\ userRole' = userRole \cup {[userId |-> r.id, roleId |-> r.dto.roleId]}
               /\ Finish(s, "ok", r.id, r.dto.roleId, FALSE)

\* users created with the email no seeded user has
AssignCreateUserDtos == {d \in CreateUserDtos : d.email = "user@mail.com"}

\* a role nobody holds: Manager, appended below the seeded roles by a call
\* that runs to completion
ManagerCreateRoleDtos ==
    {d \in RankCreateRoleDtos : d.name = "Manager" /\ d.hierarchy = 3}

NextAssign ==
    \/ \E u \in user, dto \in ManagerCreateRoleDtos : RolesCreate(u, dto)
    \/ \E s \in Slots, u \in user, id \in RoleIds : CallRemove(s, u, id)
    \/ \E s \in Slots : RemoveFind(s)
    \/ \E s \in Slots : RemoveTx(s)
    \/ \E s \in Slots, u \in user, dto \in AssignCreateUserDtos : CallUsersCreate(s, u, dto)
    \/ \E s \in Slots : UsersCreateCheck(s)
    \/ \E s \in Slots : UsersCreateUser(s)
    \/ \E s \in Slots : UsersCreateUserRole(s)

SpecAssign == Init /\ [][NextAssign]_vars

(***************************************************************************)
(* The AuthorizationService alone: one call of one method on a service     *)
(* whose user is whatever setUser left (or nothing), over the seeded store.*)
(* The call waits in `last` with its arguments and is then answered.       *)
(***************************************************************************)
AuthzUsers == {[id |-> i, email |-> "user@mail.com"] : i \in UserIds}

AuthzRoles == [id : RoleIds, name : {"Manager"}, hierarchy : 1..MaxHierarchy]

\* role lists of a user: no role twice, in any order
RoleLists ==
    {l \in UNION {[1..n -> AuthzRoles] : n \in 0..MaxRoles} :
        \A i, j \in DOMAIN l : i # j => l[i].id # l[j].id}

\* setUser({ info, roles, permissions })
Context(u, roles, permissions) ==
    [loaded |-> TRUE, info |-> u, roles |-> roles, permissions |-> permissions]

PolicyContexts ==
    {NullUser} \cup
    {Context(u, rs, ps) : u \in AuthzUsers,
                          rs \in {<<>>} \cup {<<r>> : r \in SeedRoles},
                          ps \in SUBSET Permission}

PermissionContexts ==
    {NullUser} \cup
    {Context(u, <<>>, ps) : u \in {x \in AuthzUsers : x.id = 1}, ps \in SUBSET Permission}

RoleContexts ==
    {NullUser} \cup
    {Context(u, rs, {}) : u \in {x \in AuthzUsers : x.id = 1}, rs \in RoleLists}

PolicyParams == {NoParams} \cup {[given |-> TRUE, user |-> u] : u \in AuthzUsers}

\* the five rules and a name no policy has a rule for
ActionNames == PolicyActions \cup {"restore"}

PermissionNames == {PermissionName[p] : p \in Permission}

\* role: number | Role
RoleArgs ==
    [kind : {"number"}, id : 0..MaxRoleId, role : {NullRole}]
        \cup [kind : {"Role"}, id : {0}, role : AuthzRoles]

AuthzCalls ==
    [op : {"authorize"}, status : {"pending"}, authUser : PolicyContexts,
     policy : Policies, action : ActionNames, params : PolicyParams]
    \cup [op : {"hasPermission"}, status : {"pending"},
          authUser : PermissionContexts, permission : PermissionNames,
          result : {FALSE}]
    \cup [op : {"getBestHierarchyRole"}, status : {"pending"}, roles : RoleLists,
          result : {NullRole}]
    \cup [op : {"getAuthUserBestHierarchyRole"}, status : {"pending"},
          authUser : RoleContexts, result : {NullRole}]
    \cup [op : {"isAuthUserBestRoleHigherOrEqual"}, status : {"pending"},
          authUser : RoleContexts, roleArg : RoleArgs, result : {FALSE}]

InitAuthz ==
    /\ role = SeedRoles
    /\ rolePermission = SeedRolePermissions
    /\ user = SeedUsers
    /\ userRole = SeedUserRoles
    /\ roleSeq = 3
    /\ userSeq = 3
    /\ req = [s \in Slots |-> IdleRequest]
    /\ last \in AuthzCalls

Pending(op) == last.op = op /\ last.status = "pending"

AuthorizeCall ==
    /\ Pending("authorize")
    /\ last' = [last EXCEPT !.status =
                   Authorize(last.authUser, last.policy, last.action, last.params)]
    /\ UNCHANGED <<store, req>>

HasPermissionCall ==
    /\ Pending("hasPermission")
    /\ last' = [last EXCEPT !.status = "returned",
                            !.result = hasPermission(last.authUser, last.permission)]
    /\ UNCHANGED <<store, req>>

GetBestHierarchyRoleCall ==
    /\ Pending("getBestHierarchyRole")
    /\ last' = [last EXCEPT !.status = "returned",
                            !.result = getBestHierarchyRole(last.roles)]
    /\ UNCHANGED <<store, req>>

GetAuthUserBestHierarchyRoleCall ==
    /\ Pending("getAuthUserBestHierarchyRole")
    /\ last' = [last EXCEPT !.status = "returned",
                            !.result = getAuthUserBestHierarchyRole(last.authUser)]
    /\ UNCHANGED <<store, req>>

IsAuthUserBestRoleHigherOrEqualCall ==
    /\ Pending("isAuthUserBestRoleHigherOrEqual")
    /\ last' = [last EXCEPT !.status = "returned",
                            !.result = isAuthUserBestRoleHigherOrEqual(
                                           last.authUser, ResolveRole(role, last.roleArg))]
    /\ UNCHANGED <<store, req>>

NextAuthz ==
    \/ AuthorizeCall
    \/ HasPermissionCall
    \/ GetBestHierarchyRoleCall
    \/ GetAuthUserBestHierarchyRoleCall
    \/ IsAuthUserBestRoleHigherOrEqualCall

SpecAuthz == InitAuthz /\ [][NextAuthz]_vars

(***************************************************************************)
(* The controllers: a request behind JwtAuthGuard runs the controller      *)
(* method, which asks the policy where the method does so and then calls   *)
(* the service.                                                            *)
(***************************************************************************)
\* the request ends in the ForbiddenException of authorize
Denied(op, actor, target, arg) ==
    /\ last' = Outcome(op, "Forbidden", actor, target, arg, FALSE)
    /\ UNCHANGED <<store, req>>

\* await authorize(policy, action): no params
Gate(u, policy, action) == Authorize(LoadedUser(u), policy, action, NoParams)

RolesControllerCreate(u, dto) ==
    IF Gate(u, "RolePolicy", "create") # "ok"
    THEN Denied("roles.create", u.id, 0, dto.hierarchy)
    ELSE RolesCreate(u, dto)

RolesControllerUpdate(u, id, dto) ==
    IF Gate(u, "RolePolicy", "update") # "ok"
    THEN Denied("roles.update", u.id, id, dto.hierarchy)
    ELSE RolesUpdate(u, id, dto)

RolesControllerRemove(u, id) ==
    IF Gate(u, "RolePolicy", "delete") # "ok"
    THEN Denied("roles.remove", u.id, id, FindRoleById(role, id).hierarchy)
    ELSE RolesRemove(u, id)

UsersControllerCreate(u, dto) ==
    IF Gate(u, "UserPolicy", "create") # "ok"
    THEN Denied("users.create", u.id, 0, dto.roleId)
    ELSE UsersCreate(LoadedUser(u), dto)

\* update and remove hand over to the service without asking the policy
UsersControllerUpdate(u, id, dto) == UsersUpdate(u, id, dto)

UsersControllerRemove(u, id) == UsersRemove(u, id)

\* requests of the controller slices: Manager appended at rank 3, moves to
\* rank 3, users created with or without a role, users given another email
HttpCreateRoleDtos ==
    {d \in RankCreateRoleDtos : d.name = "Manager" /\ d.hierarchy = 3}

HttpUpdateRoleDtos == {d \in RankUpdateRoleDtos : d.hierarchy = 3}

HttpCreateUserDtos == {d \in SeededCreateUserDtos : d.email = "user@mail.com"}

HttpUpdateUserDtos == {d \in SeededUpdateUserDtos : "roleId" \notin d.defined}

NextHttp ==
    \/ \E u \in user, dto \in HttpCreateRoleDtos : RolesControllerCreate(u, dto)
    \/ \E u \in user, id \in RoleIds, dto \in HttpUpdateRoleDtos :
          RolesControllerUpdate(u, id, dto)
    \/ \E u \in user, id \in RoleIds : RolesControllerRemove(u, id)
    \/ \E u \in user, dto \in HttpCreateUserDtos : UsersControllerCreate(u, dto)
    \/ \E u \in user, id \in UserIds, dto \in HttpUpdateUserDtos :
          UsersControllerUpdate(u, id, dto)
    \/ \E u \in user, id \in UserIds : UsersControllerRemove(u, id)

SpecHttp == Init /\ [][NextHttp]_vars

\* the stored users whose one role is the seeded Admin role
AdminRoleId == 2

Admins == {u \in user : {r.id : r \in RolesOfUser(u.id)} = {AdminRoleId}}

NextAdmin ==
    \/ \E u \in Admins, dto \in HttpCreateRoleDtos : RolesControllerCreate(u, dto)
    \/ \E u \in Admins, id \in RoleIds, dto \in HttpUpdateRoleDtos :
          RolesControllerUpdate(u, id, dto)
    \/ \E u \in Admins, id \in RoleIds : RolesControllerRemove(u, id)
    \/ \E u \in Admins, dto \in HttpCreateUserDtos : UsersControllerCreate(u, dto)
    \/ \E u \in Admins, id \in UserIds, dto \in HttpUpdateUserDtos :
          UsersControllerUpdate(u, id, dto)
    \/ \E u \in Admins, id \in UserIds : UsersControllerRemove(u, id)

SpecAdmin == Init /\ [][NextAdmin]_vars

(***************************************************************************)
(* AuthenticationService: login and refreshToken of one client over the    *)
(* seeded users.  `last` is the outcome of the last call: the time of the  *)
(* call (Date.now(), milliseconds), the payload the guard loaded from the  *)
(* presented token, the payload of the token issued, and the payload of    *)
(* the newest token the client holds.                                      *)
(***************************************************************************)
MsPerSecond == 1000

\* Date.now(): the first and the last millisecond of each second
Times == {sec * MsPerSecond + ms : sec \in 0..MaxSeconds, ms \in {0, MsPerSecond - 1}}

NoPayload == [present |-> FALSE, id |-> 0, refreshExpiresAt |-> 0]

\* JwtPayload { id, user, refreshExpiresAt }
JwtPayload(id, refreshExpiresAt) ==
    [present |-> TRUE, id |-> id, refreshExpiresAt |-> refreshExpiresAt]

\* options.refreshExpiresAt?: number
NoExpiry == [defined |-> FALSE, value |-> 0]

Expiry(value) == [defined |-> TRUE, value |-> value]

\* TimeAdapter.toSeconds: Math.floor(ms(time) / 1000)
toSeconds(milliseconds) == milliseconds \div MsPerSecond

\* ms(JWT_REFRESH_EXPIRES_IN)
RefreshExpiresIn == RefreshSeconds * MsPerSecond

generateTokenFresh(id, refreshExpiresAt, now) ==
    JwtPayload(id, now \div MsPerSecond + toSeconds(RefreshExpiresIn))

\* refreshExpiresAt ?? Math.floor(Date.now() / 1000) + toSeconds(refreshExpiresIn)
generateToken(id, refreshExpiresAt, now) ==
    JwtPayload(id, IF refreshExpiresAt.defined THEN refreshExpiresAt.value
                   ELSE now \div MsPerSecond + toSeconds(RefreshExpiresIn))

RefreshExpiredNever(jwtPayload, now) == FALSE

\* loadedUser.jwtPayload.refreshExpiresAt < Math.floor(Date.now() / 1000)
RefreshExpired(jwtPayload, now) == jwtPayload.refreshExpiresAt < now \div MsPerSecond

TokenOutcome(op, status, now, presented, token, held) ==
    [op |-> op, status |-> status, now |-> now, presented |-> presented,
     token |-> token, held |-> held]

InitToken ==
    /\ role = SeedRoles
    /\ rolePermission = SeedRolePermissions
    /\ user = SeedUsers
    /\ userRole = SeedUserRoles
    /\ roleSeq = 3
    /\ userSeq = 3
    /\ req = [s \in Slots |-> IdleRequest]
    /\ last = TokenOutcome("none", "ok", 0, NoPayload, NoPayload, NoPayload)

\* login: the user by email, the password, then a token with a new window
Login(email, isMatch, now) ==
    LET found == {x \in user : x.email = email}
        status == IF found = {} \/ ~isMatch THEN "Unauthorized" ELSE "ok"
        token == IF status = "ok"
                 THEN generateToken((CHOOSE x \in found : TRUE).id, NoExpiry, now)
                 ELSE NoPayload
    IN /\ now >= last.now
       /\ last' = TokenOutcome("auth.login", status, now, NoPayload, token,
                               IF status = "ok" THEN token ELSE last.held)
       /\ UNCHANGED <<store, req>>

\* refreshToken: with the newest token of the client behind the guard
\* (guarded), or on a service no guard has set a user on
RefreshToken(guarded, now) ==
    LET jwtPayload == IF guarded THEN last.held ELSE NoPayload
        status == IF ~jwtPayload.present THEN "Unauthorized"
                  ELSE IF RefreshExpired(jwtPayload, now) THEN "Unauthorized"
                  ELSE "ok"
        token == IF status = "ok"
                 THEN generateToken(jwtPayload.id, Expiry(jwtPayload.refreshExpiresAt), now)
                 ELSE NoPayload
    IN /\ now >= last.now
       /\ last' = TokenOutcome("auth.refreshToken", status, now, jwtPayload, token,
                               IF status = "ok" THEN token ELSE last.held)
       /\ UNCHANGED <<store, req>>

NextToken ==
    \/ \E email \in Emails, isMatch \in BOOLEAN, now \in Times : Login(email, isMatch, now)
    \/ \E guarded \in BOOLEAN, now \in Times : RefreshToken(guarded, now)

SpecToken == InitToken /\ [][NextToken]_vars

(***************************************************************************)
(* Properties.                                                             *)
(***************************************************************************)
Ranks(tbl) == {r.hierarchy : r \in tbl}

Dense(tbl) == Ranks(tbl) = 1..Cardinality(tbl)

HeldRanks(uid) == Ranks(RolesOfUser(uid))

HeldPermissions(uid) == PermissionsOfRoles(RolesOfUser(uid))

UserRows(uid) == {x \in user : x.id = uid}

RolesUnchanged ==
    role' = role /\ rolePermission' = rolePermission /\ roleSeq' = roleSeq

UsersUnchanged ==
    user' = user /\ userRole' = userRole /\ userSeq' = userSeq

\* C1: after any sequence of role create, update and remove calls the set of
\* hierarchy values is exactly {1..N}, N the number of roles.
C1_DensityInvariant == Dense(role)

\* C2: with calls run one at a time, no two distinct roles ever share a
\* hierarchy value.
C2_RankUniqueness ==
    \A r1, r2 \in role : r1.id # r2.id => r1.hierarchy # r2.hierarchy

\* a role was moved onto a rank another role held
C2_Witness ==
    last.op = "roles.update" /\ last.status = "ok" /\ last.hierarchyExists

\* both requests were answered ok, each was a change of the ranks (a create,
\* an update that moves its role, a remove), and two actors issued them
TwoRankMutations ==
    /\ \A s \in Slots : req[s].pc = "done" /\ req[s].rankChange
    /\ \A s, t \in Slots : s # t => req[s].actor # req[t].actor

\* C3: when two role mutations by two actors are interleaved at the
\* granularity of their store reads and transactions, starting from the dense
\* seeded ranks, the ranks they leave behind hold no two roles with the same
\* hierarchy (the half of the claim that calls run one at a time do keep).
C3_ConcurrentRankMutation ==
    TwoRankMutations =>
        \A r1, r2 \in role : r1.id # r2.id => r1.hierarchy # r2.hierarchy

\* C4: no partially applied role mutation is observable: whenever the shift
\* of an update commits, the moved role carries its new rank in the same
\* state, so a reader sees the ranks before the call or after it, never the
\* shift without the move.
C4_NoPartialRoleMutation ==
    [][\A s \in Slots :
          UpdateShift(s) =>
             \/ role' = role
             \/ role' = UpdateRoleRows(ShiftUp(role, req[s].dto.hierarchy), req[s].id,
                                       req[s].dto, req[s].existingRole)]_vars

\* the request bodies that fit what the last call left behind
CreateRoleDtosOf(l) == {d \in CreateRoleDtos : d.hierarchy = l.arg}

UpdateRoleDtosOf(l) == {d \in UpdateRoleDtos : d.hierarchy = l.arg}

UpdateUserDtosOf(l) == {d \in UpdateUserDtos : d.roleId = l.arg}

\* C5: a role create succeeds only if the actor holds a role and every rank
\* the actor holds is strictly less than the requested rank; any other
\* request is rejected, creates no role and shifts no rank.
C5_CreateEscalationGuard ==
    [][last'.op = "roles.create" =>
         \A u \in UserRows(last'.actor), dto \in CreateRoleDtosOf(last') :
            RolesCreate(u, dto) =>
               LET allowed == /\ HeldRanks(u.id) # {}
                              /\ \A h \in HeldRanks(u.id) : h < dto.hierarchy
               IN /\ last'.status = "ok" => allowed
                  /\ ~allowed => last'.status # "ok" /\ RolesUnchanged]_vars

\* the seeded admin, whose role has rank 2, asked for rank 1 and was refused
C5_Witness ==
    /\ last.op = "roles.create" /\ last.status = "Unauthorized_Hierarchy"
    /\ last.actor = 2 /\ last.arg = 1
    /\ HeldRanks(2) = {2}

\* an assignment of role r by the acting user is within the guard
AssignAllowed(actor, r) ==
    /\ HeldRanks(actor) # {}
    /\ \A h \in HeldRanks(actor) : h <= r.hierarchy

\* C6: a user create or update that carries the id of a role succeeds only
\* if the actor holds a role and every rank the actor holds is less than or
\* equal to that role's rank; no user-role row is written outside that guard,
\* so an actor without roles never assigns one.
C6_AssignEscalationGuard ==
    [][last'.op \in {"users.create", "users.update"} =>
         /\ \A r \in role :
               (last'.status = "ok" /\ last'.arg = r.id) =>
                  AssignAllowed(last'.actor, r)
         /\ \A x \in userRole' \ userRole :
               AssignAllowed(last'.actor, FindRoleById(role, x.roleId))]_vars

\* the seeded admin (rank 2) created a user holding the rank 2 role
C6_Witness ==
    /\ last.op = "users.create" /\ last.status = "ok"
    /\ last.actor = 2 /\ last.arg = 2
    /\ HeldRanks(2) = {2}
    /\ [userId |-> last.target, roleId |-> 2] \in userRole

\* C7: a role create or update that asks for a permission id the actor does
\* not hold is rejected and leaves roles, ranks and role permissions as they
\* were; a permission set that is written is a subset of the actor's.
C7_PermissionSubsetLaw ==
    [][/\ last'.op = "roles.create" =>
            \A u \in UserRows(last'.actor), dto \in CreateRoleDtosOf(last') :
               RolesCreate(u, dto) =>
                  /\ ~(Range(dto.permissionIds) \subseteq HeldPermissions(u.id)) =>
                        last'.status # "ok" /\ RolesUnchanged
                  /\ last'.status = "ok" =>
                        PermissionIdsOfRole(rolePermission', last'.target)
                           \subseteq HeldPermissions(u.id)
       /\ last'.op = "roles.update" =>
            \A u \in UserRows(last'.actor), dto \in UpdateRoleDtosOf(last') :
               ("permissionIds" \in dto.defined /\ RolesUpdate(u, last'.target, dto)) =>
                  /\ ~(Range(dto.permissionIds) \subseteq HeldPermissions(u.id)) =>
                        last'.status # "ok" /\ RolesUnchanged
                  /\ last'.status = "ok" =>
                        PermissionIdsOfRole(rolePermission', last'.target)
                           \subseteq HeldPermissions(u.id)]_vars

\* the seeded admin, who lacks delete_role, asked for it in an update
C7_Witness ==
    /\ last.op = "roles.update" /\ last.status = "Unauthorized_Permissions"
    /\ last.actor = 2
    /\ 8 \notin HeldPermissions(2)

\* C8: an update of the acting user's own record that carries a roleId is
\* rejected whoever the actor is (by the own-role check when the roleId is
\* non-zero) and changes neither the user nor the user-role rows.
C8_SelfRoleUpdateRejected ==
    [][(last'.op = "users.update" /\ last'.target = last'.actor) =>
         \A u \in UserRows(last'.actor), dto \in UpdateUserDtosOf(last') :
            ("roleId" \in dto.defined /\ UsersUpdate(u, u.id, dto)) =>
               /\ last'.status # "ok"
               /\ dto.roleId # 0 => last'.status = "Conflict_OwnRole"
               /\ UsersUnchanged]_vars

\* the seeded super admin tried to give itself the rank 2 role
C8_Witness ==
    /\ last.op = "users.update" /\ last.status = "Conflict_OwnRole"
    /\ last.actor = 1 /\ last.target = 1 /\ last.arg = 2

\* C9: deleting one's own record succeeds for every actor and removes
\* exactly that user; updating one's own record without a roleId is never
\* rejected by a role or hierarchy check.
C9_SelfException ==
    [][/\ (last'.op = "users.remove" /\ last'.target = last'.actor) =>
            \A u \in UserRows(last'.actor) :
               UsersRemove(u, u.id) =>
                  /\ last'.status = "ok"
                  /\ user' = user \ {u}
                  /\ userRole' = {x \in userRole : x.userId # u.id}
                  /\ RolesUnchanged
       /\ (last'.op = "users.update" /\ last'.target = last'.actor) =>
            \A u \in UserRows(last'.actor), dto \in UpdateUserDtosOf(last') :
               ("roleId" \notin dto.defined /\ UsersUpdate(u, u.id, dto)) =>
                  last'.status \in {"ok", "Conflict_Email"}]_vars

\* a registered user, who holds no role, deleted its own record
C9_Witness ==
    /\ last.op = "users.remove" /\ last.status = "ok"
    /\ last.actor = 3 /\ last.target = 3
    /\ userRole = SeedUserRoles

\* C10: a successful remove of the role with rank R from a dense table of N
\* roles leaves ranks {1..N-1}: ranks above R go down by one, ranks below R
\* stay, and no other role disappears.
C10_DeleteSideEffect ==
    [][(last'.op = "roles.remove" /\ last'.status = "ok" /\ Dense(role)) =>
         \A u \in UserRows(last'.actor) :
            RolesRemove(u, last'.target) =>
               LET id == last'.target
                   R == FindRoleById(role, id).hierarchy
               IN /\ Ranks(role') = 1..(Cardinality(role) - 1)
                  /\ {r.id : r \in role'} = {r.id : r \in role} \ {id}
                  /\ \A r \in role : r.id # id =>
                       FindRoleById(role', r.id).hierarchy =
                           IF r.hierarchy > R THEN r.hierarchy - 1 ELSE r.hierarchy]_vars

\* the rank 2 role of three was removed: ranks 1 and 2 remain
C10_Witness ==
    /\ last.op = "roles.remove" /\ last.status = "ok" /\ last.arg = 2
    /\ Cardinality(role) = 2 /\ Dense(role)

\* C11: a successful create at rank R, when some role already has rank R,
\* raises by exactly 1 the rank of every existing role with rank >= R, leaves
\* the roles with rank < R as they were and inserts the new role at R; when no
\* role has rank R, no existing role's rank changes.
C11_InsertShift ==
    [][(last'.op = "roles.create" /\ last'.status = "ok") =>
         \A u \in UserRows(last'.actor), dto \in CreateRoleDtosOf(last') :
            RolesCreate(u, dto) =>
               LET R == dto.hierarchy
                   taken == \E r \in role : r.hierarchy = R
               IN /\ {r.id : r \in role'} = {r.id : r \in role} \cup {last'.target}
                  /\ last'.target \notin {r.id : r \in role}
                  /\ FindRoleById(role', last'.target).hierarchy = R
                  /\ FindRoleById(role', last'.target).name = dto.name
                  /\ \A r \in role :
                       FindRoleById(role', r.id) =
                          IF taken /\ r.hierarchy >= R
                          THEN [r EXCEPT !.hierarchy = r.hierarchy + 1]
                          ELSE r]_vars

\* on the seeded roles, Manager was created at rank 2: Admin went to rank 3
C11_Witness ==
    /\ last.op = "roles.create" /\ last.status = "ok" /\ last.hierarchyExists
    /\ last.arg = 2
    /\ role = {[id |-> 1, name |-> "Super Admin", hierarchy |-> 1],
               [id |-> 2, name |-> "Admin", hierarchy |-> 3],
               [id |-> last.target, name |-> "Manager", hierarchy |-> 2]}

\* the largest rank number among the roles a user holds (0: none)
BestHeldRank(uid) ==
    IF HeldRanks(uid) = {} THEN 0
    ELSE CHOOSE h \in HeldRanks(uid) : \A k \in HeldRanks(uid) : k <= h

\* C12: a remove is refused whenever a user holds the role, whenever the
\* actor holds no role and whenever the role's rank is less than or equal to
\* the actor's best rank; a refused remove leaves the role in place and every
\* rank as it was.
C12_RoleDeletionRefusal ==
    [][last'.op = "roles.remove" =>
         \A u \in UserRows(last'.actor) :
            RolesRemove(u, last'.target) =>
               LET target == FindRoleById(role, last'.target)
                   mustRefuse ==
                      \/ \E x \in userRole : x.roleId = target.id
                      \/ HeldRanks(u.id) = {}
                      \/ target.hierarchy <= BestHeldRank(u.id)
               IN /\ (~IsNull(target) /\ mustRefuse) => last'.status # "ok"
                  /\ last'.status # "ok" => role' = role /\ userRole' = userRole]_vars

\* the super admin asked to remove the Admin role, which the admin user holds
C12_Witness ==
    /\ last.op = "roles.remove" /\ last.status = "Conflict_RoleInUse"
    /\ last.actor = 1 /\ last.target = 2
    /\ [userId |-> 2, roleId |-> 2] \in userRole
    /\ [id |-> 2, name |-> "Admin", hierarchy |-> 2] \in role

(***************************************************************************)
(* Answered calls of the service alone.                                    *)
(***************************************************************************)
Answered(op) == last.op = op /\ last.status # "pending"

\* what the rule of a policy answers to a call, when the policy has the rule
RuleResponse(call) ==
    IF call.policy = "UserPolicy"
    THEN UserPolicy(call.action, call.authUser, call.params)
    ELSE RolePolicy(call.action, call.authUser, call.params)

RuleReturns(call, value) ==
    /\ call.action \in PolicyActions
    /\ ~RuleResponse(call).threw
    /\ RuleResponse(call).value = value

\* C13: authorize(policy, action, params) returns normally exactly when the
\* policy has a rule for the action and that rule returns true; it raises
\* Forbidden when the rule returns false, and an internal error when the
\* policy has no rule of that name.
C13_PolicyDispatchOutcome ==
    Answered("authorize") =>
        /\ last.status = "ok" <=> RuleReturns(last, TRUE)
        /\ RuleReturns(last, FALSE) => last.status = "Forbidden"
        /\ last.action \notin PolicyActions => last.status = "InternalServerError"

C13_Witness ==
    /\ Answered("authorize")
    /\ last.action = "restore"
    /\ last.policy = "RolePolicy"
    /\ last.authUser.loaded
    /\ last.status = "InternalServerError"

\* the caller of the last call holds the permission of that name
Holds(name) == \E p \in last.authUser.permissions : PermissionName[p] = name

Self == last.authUser.info.id = last.params.user.id

\* the decision table of the two policies
Allowed ==
    IF last.policy = "UserPolicy"
    THEN CASE last.action = "viewAny" -> Holds("read_user")
           [] last.action = "create"  -> Holds("create_user")
           [] last.action = "view"    -> Self \/ Holds("read_user")
           [] last.action = "update"  -> Self \/ Holds("update_user")
           [] last.action = "delete"  -> Self \/ Holds("delete_user")
    ELSE CASE last.action = "viewAny" -> Holds("read_role")
           [] last.action = "view"    -> Holds("read_role")
           [] last.action = "create"  -> Holds("create_role")
           [] last.action = "update"  -> Holds("update_role")
           [] last.action = "delete"  -> Holds("delete_role")

C15_NullSafeUninitializedContext ==
    (/\ last.op \in {"hasPermission", "getAuthUserBestHierarchyRole",
                     "isAuthUserBestRoleHigherOrEqual"}
     /\ last.status # "pending"
     /\ ~last.authUser.loaded)
        => /\ last.status = "returned"
           /\ last.op = "hasPermission" => last.result = FALSE
           /\ last.op = "getAuthUserBestHierarchyRole" => IsNull(last.result)
           /\ last.op = "isAuthUserBestRoleHigherOrEqual" => last.result = FALSE

C15_Witness ==
    /\ Answered("isAuthUserBestRoleHigherOrEqual")
    /\ ~last.authUser.loaded
    /\ last.roleArg.kind = "number"
    /\ ~IsNull(FindRoleById(role, last.roleArg.id))
    /\ last.result = FALSE

\* C16: with no user set, authorize on either policy, for each of the five
\* actions and every params value, ends in an authorization denial and in no
\* other fault.
C16_NoCrashOnUninitializedPolicyUse ==
    (/\ Answered("authorize")
     /\ last.action \in PolicyActions
     /\ ~last.authUser.loaded)
        => last.status = "Forbidden"

\* the roles of a list, as a set
Members(roles) == {roles[i] : i \in DOMAIN roles}

\* C17: getBestHierarchyRole(roles) returns null exactly for the empty list;
\* otherwise it returns a member of roles whose hierarchy is >= that of every
\* member; and the member returned is the same for every ordering of the same
\* set of roles, also when several members share the largest hierarchy.
C17_BestRole ==
    Answered("getBestHierarchyRole") =>
        /\ IsNull(last.result) <=> last.roles = <<>>
        /\ last.roles # <<>> =>
              /\ last.result \in Members(last.roles)
              /\ \A r \in Members(last.roles) : last.result.hierarchy >= r.hierarchy
        /\ \A l \in RoleLists :
              Members(l) = Members(last.roles) => getBestHierarchyRole(l) = last.result

\* the role the last comparison was made against, null when the id matches none
Target ==
    IF last.roleArg.kind = "number"
    THEN IF \E r \in role : r.id = last.roleArg.id
         THEN CHOOSE r \in role : r.id = last.roleArg.id
         ELSE NullRole
    ELSE last.roleArg.role

\* C18: isAuthUserBestRoleHigherOrEqual(target) returns true exactly when the
\* target role exists, the caller holds at least one role, and the numerically
\* largest hierarchy among the caller's roles is <= the target's hierarchy; a
\* target id that matches no role, or a caller without a role, gives false.
C18_IsRankHigherOrEqual ==
    Answered("isAuthUserBestRoleHigherOrEqual") =>
        (last.result = TRUE <=>
            /\ ~IsNull(Target)
            /\ last.authUser.roles # <<>>
            /\ \A r \in Members(last.authUser.roles) : r.hierarchy <= Target.hierarchy)

C18_Witness ==
    /\ Answered("isAuthUserBestRoleHigherOrEqual")
    /\ last.roleArg.kind = "Role"
    /\ Len(last.authUser.roles) = 2
    /\ last.authUser.roles[1].hierarchy < last.roleArg.role.hierarchy
    /\ last.authUser.roles[2].hierarchy > last.roleArg.role.hierarchy
    /\ last.result = FALSE

\* C19: a remove of another, existing user is rejected when the actor holds
\* no role, whatever the target holds; otherwise it succeeds when the target
\* holds no role, and when the target holds roles it succeeds exactly when
\* the actor's best rank is <= the target's best rank; a rejected remove
\* deletes nothing and a successful one deletes the target.
C19_DeleteAnotherUser ==
    [][(/\ last'.op = "users.remove"
        /\ last'.target # last'.actor
        /\ UserRows(last'.target) # {}) =>
         LET actor == last'.actor
             target == last'.target
         IN /\ HeldRanks(actor) = {} => last'.status # "ok"
            /\ (HeldRanks(actor) # {} /\ HeldRanks(target) = {}) => last'.status = "ok"
            /\ (HeldRanks(actor) # {} /\ HeldRanks(target) # {}) =>
                  (last'.status = "ok" <=> BestHeldRank(actor) <= BestHeldRank(target))
            /\ last'.status # "ok" => user' = user /\ userRole' = userRole
            /\ last'.status = "ok" => user' = user \ UserRows(target)]_vars

\* the seeded admin (rank 2) asked to delete the seeded super admin (rank 1)
C19_Witness ==
    /\ last.op = "users.remove" /\ last.status = "Forbidden_Hierarchy"
    /\ last.actor = 2 /\ last.target = 1
    /\ HeldRanks(2) = {2} /\ HeldRanks(1) = {1}
    /\ UserRows(1) # {}

\* the outcomes of the role checks of a user update
RoleCheckRejections == {"Conflict_OwnRole", "Forbidden_NoRole", "Forbidden_Hierarchy"}

\* the rank the actor is measured against on a role change of a user: the
\* target's best rank, or the rank of the role to assign when the target has
\* none (0: no such role)
RankToMatch(target, roleId) ==
    IF HeldRanks(target) # {} THEN BestHeldRank(target)
    ELSE FindRoleById(role, roleId).hierarchy

\* C20: an update of another, existing user that carries a roleId passes its
\* role checks exactly when the actor holds a role and the actor's best rank
\* is <= h, where h is the target's best rank when the target holds roles and
\* the rank of the role to assign when it holds none.
C20_RoleAssignmentCheckOnUpdate ==
    [][(/\ last'.op = "users.update"
        /\ last'.target # last'.actor
        /\ UserRows(last'.target) # {}) =>
         \A u \in UserRows(last'.actor), dto \in UpdateUserDtosOf(last') :
            ("roleId" \in dto.defined /\ UsersUpdate(u, last'.target, dto)) =>
               LET h == RankToMatch(last'.target, dto.roleId)
               IN last'.status \notin RoleCheckRejections <=>
                     /\ HeldRanks(u.id) # {}
                     /\ h # 0
                     /\ BestHeldRank(u.id) <= h]_vars

\* C21: an update of an existing role is rejected when the requested name
\* differs from the role's name and is the name of another role (so an
\* accepted update never gives the role a name another role had), when a
\* requested rank is less than or equal to the actor's best rank, and when
\* the actor holds no role; every rejected update leaves the names, ranks and
\* permission sets of all roles as they were.
C21_RoleUpdateChecks ==
    [][(last'.op = "roles.update" /\ ~IsNull(FindRoleById(role, last'.target))) =>
         LET existing == FindRoleById(role, last'.target)
             updated == FindRoleById(role', last'.target)
         IN /\ HeldRanks(last'.actor) = {} => last'.status # "ok"
            /\ (last'.arg # 0 /\ last'.arg <= BestHeldRank(last'.actor)) =>
                  last'.status # "ok"
            /\ (last'.status = "ok" /\ updated.name # existing.name) =>
                  \A r \in role : r.id # existing.id => r.name # updated.name
            /\ last'.status # "ok" => RolesUnchanged]_vars

\* the super admin asked to rename its own role to the name of the Admin role
C21_Witness ==
    /\ last.op = "roles.update" /\ last.status = "Conflict_RoleName"
    /\ last.actor = 1 /\ last.target = 1
    /\ \E r \in role : r.id = 1 /\ r.name = "Super Admin"
    /\ \E r \in role : r.id = 2 /\ r.name = "Admin"

\* C22: after a successful update that moves a role from rank R_old to a
\* different rank R_new, the moved role has rank R_new, no other role has
\* rank R_new, every other role that had a rank below R_new is unchanged, and
\* when another role held R_new beforehand every other role that had a rank
\* >= R_new has that rank plus 1.
C22_Move ==
    [][(/\ last'.op = "roles.update"
        /\ last'.status = "ok"
        /\ last'.arg # 0
        /\ last'.arg # FindRoleById(role, last'.target).hierarchy) =>
         LET Rnew == last'.arg
             taken == \E r \in role : r.id # last'.target /\ r.hierarchy = Rnew
         IN /\ FindRoleById(role', last'.target).hierarchy = Rnew
            /\ \A r \in role :
                  r.id # last'.target =>
                     LET after == FindRoleById(role', r.id)
                     IN /\ after.hierarchy # Rnew
                        /\ r.hierarchy < Rnew => after = r
                        /\ (taken /\ r.hierarchy >= Rnew) =>
                              after = [r EXCEPT !.hierarchy = r.hierarchy + 1]]_vars

\* of Super Admin 1, Admin 2, Manager 3, Manager was moved to rank 2 and
\* Admin went to rank 3
C22_Witness ==
    /\ last.op = "roles.update" /\ last.status = "ok" /\ last.hierarchyExists
    /\ last.arg = 2 /\ last.target = 3
    /\ role = {[id |-> 1, name |-> "Super Admin", hierarchy |-> 1],
               [id |-> 2, name |-> "Admin", hierarchy |-> 3],
               [id |-> 3, name |-> "Manager", hierarchy |-> 2]}

\* C23: a user or role mutation that ends in an error, whether a check
\* rejected it or a write to the store failed at any step, leaves users,
\* roles, ranks, user-role rows and role-permission rows as they were before
\* the call.
C23_NoPartialEffectsOnFailure ==
    [][last'.status # "ok" =>
         /\ role' = role
         /\ rolePermission' = rolePermission
         /\ user' = user
         /\ userRole' = userRole]_vars

\* C24: refreshToken ends in Unauthorized exactly when no identity is loaded
\* or the presented token's refreshExpiresAt is earlier than the current time
\* in whole seconds, and issues a token otherwise; it issues no token at a
\* second later than the presented token's refreshExpiresAt.
C24_RefreshValidity ==
    last.op = "auth.refreshToken" =>
        LET seconds == last.now \div MsPerSecond
            refused == \/ ~last.presented.present
                       \/ last.presented.refreshExpiresAt < seconds
        IN /\ last.status = "Unauthorized" <=> refused
           /\ last.status = "ok" <=> ~refused
           /\ last.token.present <=> ~refused
           /\ last.token.present => seconds <= last.presented.refreshExpiresAt

\* a refresh in the last millisecond of the last second of the window
C24_Witness ==
    /\ last.op = "auth.refreshToken" /\ last.status = "ok"
    /\ last.token.present
    /\ last.now = last.presented.refreshExpiresAt * MsPerSecond + (MsPerSecond - 1)

\* C30: a token issued by refreshToken carries exactly the refreshExpiresAt
\* of the token presented, so the refreshExpiresAt of the token the client
\* holds stays the same over every refresh that follows a login; only login
\* computes a new one, the current second plus the refresh period.
C30_RefreshNeverExtendsWindow ==
    [][/\ (last'.op = "auth.refreshToken" /\ last'.status = "ok") =>
             /\ last'.token.refreshExpiresAt = last'.presented.refreshExpiresAt
             /\ last'.presented = last.held
       /\ last'.op = "auth.refreshToken" =>
             last'.held.refreshExpiresAt = last.held.refreshExpiresAt
       /\ (last'.op = "auth.login" /\ last'.status = "ok") =>
             last'.held.refreshExpiresAt =
                last'.now \div MsPerSecond + RefreshSeconds]_vars

\* a refresh one second or more after the login kept the login's window
C30_Witness ==
    /\ last.op = "auth.refreshToken" /\ last.status = "ok"
    /\ last.token.refreshExpiresAt = last.presented.refreshExpiresAt
    /\ last.now \div MsPerSecond + RefreshSeconds > last.token.refreshExpiresAt

\* the seeded super admin and the seeded Super Admin role
SuperAdminUserId == 1

SuperAdminRoleId == 1

\* C25: from the seeded state, whatever the users whose sole role is Admin
\* ask of the user and role controllers, no user other than the seeded super
\* admin comes to hold delete_user, delete_role or the Super Admin role.
C25_NoPrivilegeEscalation ==
    \A x \in user :
        x.id # SuperAdminUserId =>
            /\ \A p \in HeldPermissions(x.id) :
                  PermissionName[p] \notin {"delete_user", "delete_role"}
            /\ [userId |-> x.id, roleId |-> SuperAdminRoleId] \notin userRole

\* the permission a controller request on another user needs
NeededPermission(op) == IF op = "users.update" THEN "update_user" ELSE "delete_user"

\* C27: every user update and user delete handled by UsersController that
\* succeeds on a target other than the acting user was asked by an actor
\* whose permissions contain update_user (update) or delete_user (delete), so
\* an actor without that permission changes and deletes no other user.
C27_PermissionGateOnUserMutation ==
    [][(/\ last'.op \in {"users.update", "users.remove"}
        /\ last'.status = "ok"
        /\ last'.target # last'.actor) =>
         \E p \in HeldPermissions(last'.actor) :
            PermissionName[p] = NeededPermission(last'.op)]_vars

\* C26: an update of a role whose current rank is less than or equal to the
\* actor's best rank (a role of equal or greater authority than the actor) is
\* rejected and changes neither the name, the rank nor the permission set of
\* that role.
C26_OutrankingRolesImmuneToUpdate ==
    [][(/\ last'.op = "roles.update"
        /\ ~IsNull(FindRoleById(role, last'.target))
        /\ HeldRanks(last'.actor) # {}
        /\ FindRoleById(role, last'.target).hierarchy <= BestHeldRank(last'.actor)) =>
         /\ last'.status # "ok"
         /\ FindRoleById(role', last'.target) = FindRoleById(role, last'.target)
         /\ PermissionIdsOfRole(rolePermission', last'.target) =
               PermissionIdsOfRole(rolePermission, last'.target)]_vars

\* C29: a successful role create or remove leaves in place, with its name,
\* rank and permission set, every role whose rank is less than or equal to
\* the actor's best rank; so every role the actor holds keeps its rank, no
\* role is created at rank 1 and no role of rank 1 is deleted.
C29_FrameOfRoleCreateAndDelete ==
    [][(last'.op \in {"roles.create", "roles.remove"} /\ last'.status = "ok") =>
         LET best == BestHeldRank(last'.actor)
         IN /\ \A r \in role :
                  r.hierarchy <= best =>
                     /\ r \in role'
                     /\ PermissionIdsOfRole(rolePermission', r.id) =
                           PermissionIdsOfRole(rolePermission, r.id)
            /\ \A r \in RolesOfUser(last'.actor) : r \in role'
            /\ last'.op = "roles.create" =>
                  FindRoleById(role', last'.target).hierarchy # 1
            /\ last'.op = "roles.remove" =>
                  FindRoleById(role, last'.target).hierarchy # 1]_vars

\* the admin (rank 2) removed the rank 3 role: the roles of rank 1 and 2,
\* the admin's own among them, stayed as they were
C29_Witness ==
    /\ last.op = "roles.remove" /\ last.status = "ok"
    /\ last.actor = 2 /\ last.arg = 3
    /\ HeldRanks(1) = {1} /\ HeldRanks(2) = {2}
    /\ Cardinality(role) = 2

\* C28: when a role removal is interleaved, read by read and write by write,
\* with a user creation that assigns the same role, the removal takes away no
\* committed user-role row, and a user created on a request for a role holds
\* that role when the request is answered.
C28_RoleInUseNeverDeleted ==
    [][/\ (last'.op = "roles.remove" /\ last' # last) => userRole \subseteq userRole'
       /\ (/\ last'.op = "users.create"
           /\ last' # last
           /\ last'.arg # 0
           /\ \E x \in user' : x.id = last'.target) =>
             [userId |-> last'.target, roleId |-> last'.arg] \in userRole']_vars

====
